---- MODULE Spec2Model ----
(***************************************************************************)
(* A model of scripts/ioc_deploy.py: one run of _main()/main(), from the   *)
(* parsed arguments to the returned exit status.                           *)
(*                                                                         *)
(* Strings are sequences of one-character strings, so that str.split,      *)
(* str.startswith, str.strip, str.lower and pathlib's "/" are computed     *)
(* character by character as Python computes them.  A pathlib.Path is the  *)
(* tuple of its .parts, an absolute one starting with the part "/".        *)
(*                                                                         *)
(* The environment (the remote git server, the filesystem, the user at the *)
(* prompt, git's and make's exit codes) answers nondeterministically at    *)
(* the step that asks; what it answered is kept in the logs probes, clones,*)
(* makes, mkdirs, prompts, remote_tags and path_existed.  The model covers *)
(* the runs in which the external commands can be started.                 *)
(***************************************************************************)
EXTENDS Integers, Sequences, FiniteSets

VARIABLES
    args,          \* CliArgs, frozen
    pc,            \* position in _main()/main()
    upd_name,      \* main: upd_name
    upd_rel,       \* main: upd_rel
    try_idx,       \* finalize_tag: index of the loop over try_release
    deploy_dir,    \* main: deploy_dir (a str)
    derived,       \* number of calls of get_target_dir
    probes,        \* git clone commands run in a scratch directory, with outcome
    remote_tags,   \* tags/branches the remote repository was seen to have
    path_existed,  \* answers of Path(deploy_dir).exists()
    prompts,       \* texts read by input()
    mkdirs,        \* directories created by parent_dir.mkdir
    clones,        \* git clone commands run by clone_repo_tag, with exit code
    makes,         \* make invocations: working directory and exit code
    raised,        \* exception propagating out of main, or "none"
    result         \* return value of _main, or NoResult

vars == <<args, pc, upd_name, upd_rel, try_idx, deploy_dir, derived, probes,
          remote_tags, path_existed, prompts, mkdirs, clones, makes, raised, result>>

----------------------------------------------------------------------------
(* Bounds of the explored inputs *)

MaxSegs == 3
MaxRelLen == 2
MaxTextLen == 2
MaxExit == 3

(* ReturnCode *)
SUCCESS == 0
EXCEPTION == 1
NO_CONFIRM == 2
NoResult == -1

----------------------------------------------------------------------------
(* Strings *)

EmptyStr == <<>>
Hyphen == "-"
SlashCh == "/"
S_ioc == <<"i", "o", "c">>
S_ads == <<"a", "d", "s">>
S_ioc_common == <<"i", "o", "c", "-", "c", "o", "m", "m", "o", "n", "-">>
S_ioc_common_gigECam == S_ioc_common \o <<"g", "i", "g", "E", "C", "a", "m">>
S_x_ioc == <<"/", "x", "/", "i", "o", "c">>
S_opt == <<"/", "o">>
S_R100 == <<"R", "1", ".", "0", ".", "0">>
S_100 == <<"1", ".", "0", ".", "0">>
S_dot1 == <<".", "1">>
S_pcdshub == <<"p", "c", "d", "s", "h", "u", "b">>

UpperOf == [c \in {"y", "n", "r", "v", "b"} |->
               CASE c = "y" -> "Y" [] c = "n" -> "N" [] c = "r" -> "R"
                 [] c = "v" -> "V" [] c = "b" -> "B"]
Letters == DOMAIN UpperOf \cup {UpperOf[c] : c \in DOMAIN UpperOf}
            \cup {"i", "o", "c", "a", "d", "s", "m", "g", "E", "C", "x"}
Whitespace == {" "}

SeqsUpTo(S, n) == UNION {[1..k -> S] : k \in 0..n}

\* str.startswith(prefix)
StartsWith(s, prefix) ==
    /\ Len(s) >= Len(prefix)
    /\ SubSeq(s, 1, Len(prefix)) = prefix

\* str.isalpha() of one character
IsAlpha(c) == c \in Letters

\* str.lower()
LowerCh(c) == IF \E l \in DOMAIN UpperOf : UpperOf[l] = c
              THEN CHOOSE l \in DOMAIN UpperOf : UpperOf[l] = c
              ELSE c
Lower(s) == [i \in 1..Len(s) |-> LowerCh(s[i])]

\* str.strip(): whitespace removed at both ends
RECURSIVE LStrip(_)
LStrip(s) == IF s # <<>> /\ Head(s) \in Whitespace THEN LStrip(Tail(s)) ELSE s
RECURSIVE RStrip(_)
RStrip(s) == IF s # <<>> /\ s[Len(s)] \in Whitespace
             THEN RStrip(SubSeq(s, 1, Len(s) - 1)) ELSE s
Strip(s) == RStrip(LStrip(s))

\* str.split(sep) for a one-character sep: "".split("-") is [""]
RECURSIVE Split(_, _)
Split(s, sep) ==
    IF \A i \in 1..Len(s) : s[i] # sep
    THEN <<s>>
    ELSE LET i == CHOOSE k \in 1..Len(s) :
                      s[k] = sep /\ \A j \in 1..(k - 1) : s[j] # sep
         IN <<SubSeq(s, 1, i - 1)>> \o Split(SubSeq(s, i + 1, Len(s)), sep)

\* sep.join(segs)
RECURSIVE Join(_, _)
Join(segs, sep) ==
    IF segs = <<>> THEN <<>>
    ELSE IF Len(segs) = 1 THEN segs[1]
    ELSE segs[1] \o <<sep>> \o Join(Tail(segs), sep)

\* segs[n:] of a list, n counted from 0
DropFirst(segs, n) == SubSeq(segs, n + 1, Len(segs))

----------------------------------------------------------------------------
(* pathlib *)

Root == <<"/">>
Cwd == <<Root, <<"w">>>>

PathIsAbs(p) == p # <<>> /\ p[1] = Root

\* Path(s): the parts of s; empty and "." components vanish
ParsePath(s) ==
    LET comps == SelectSeq(Split(s, SlashCh), LAMBDA c : c # <<>> /\ c # <<".">>)
    IN IF s # <<>> /\ s[1] = SlashCh THEN <<Root>> \o comps ELSE comps

\* p / s: an absolute right operand replaces the left one
PathDiv(p, s) ==
    LET q == ParsePath(s)
    IN IF PathIsAbs(q) THEN q ELSE p \o q

\* str(p)
PathStr(p) ==
    IF p = <<>> THEN <<".">>
    ELSE IF PathIsAbs(p) THEN <<SlashCh>> \o Join(Tail(p), SlashCh)
    ELSE Join(p, SlashCh)

\* p.resolve() without symbolic links
PathResolve(p) == IF PathIsAbs(p) THEN p ELSE Cwd \o p

\* p.parent
PathParent(p) ==
    IF p = <<>> \/ p = <<Root>> THEN p ELSE SubSeq(p, 1, Len(p) - 1)

----------------------------------------------------------------------------
(* Inputs *)

SegWords == {S_ioc, S_ads, EmptyStr}
Names == {Join(segs, Hyphen) : segs \in SeqsUpTo(SegWords, MaxSegs)}
            \cup {S_ioc_common_gigECam}
RelAlphabet == {"R", "v", "b", "1"}
Releases == SeqsUpTo(RelAlphabet, MaxRelLen) \cup {S_R100, S_100, S_dot1}
IocDirs == {S_x_ioc, S_opt}
TextAlphabet == {"y", "Y", "n", " "}
UserTexts == SeqsUpTo(TextAlphabet, MaxTextLen)
ExitCodes == 0..MaxExit

\* Exit codes of the probe clones: run with check=True, only zero or nonzero counts
ProbeExitCodes == {0, MaxExit}

\* Requests that vary the name, the release and the base directory
ResolveArgs == [name : Names, release : Releases, ioc_dir : IocDirs,
                github_org : {S_pcdshub}, auto_confirm : {TRUE},
                dry_run : BOOLEAN, version : {FALSE}]
\* Requests that vary the flags
ExecArgs == [name : {S_ioc_common_gigECam, S_ads}, release : {S_R100, <<"b">>},
             ioc_dir : {S_x_ioc}, github_org : {S_pcdshub},
             auto_confirm : BOOLEAN, dry_run : BOOLEAN, version : BOOLEAN]
CliArgs == ResolveArgs \cup ExecArgs

----------------------------------------------------------------------------
(* The functions of the script *)

\* _clone: the command line and working directory handed to subprocess.run
_clone(name, github_org, release, working_dir, target_dir) ==
    [repo   |-> <<github_org, name>>,
     branch |-> IF release # <<>> THEN <<release>> ELSE <<>>,
     target |-> IF target_dir # <<>> THEN <<target_dir>> ELSE <<>>,
     cwd    |-> working_dir]

\* subprocess.run(cmd, check=True): a nonzero exit raises CalledProcessError
RunChecked(rc) ==
    [raises |-> rc # 0, returncode |-> rc]

\* CandidateName testing only the first segment
CandidateName_first_only(name) ==
    LET split_name == Split(name, Hyphen)
    IN IF split_name[1] # S_ioc THEN S_ioc_common \o name ELSE name

\* finalize_name: the name the probe clone is made of
CandidateName(name) ==
    LET split_name == Split(name, Hyphen)
    IN IF Len(split_name) < 3 \/ split_name[1] # S_ioc
       THEN S_ioc_common \o name
       ELSE name

\* TryRelease with the bare variant tried before the prefixed ones
TryRelease_bare_first(release) ==
    <<release>> \o
    (IF StartsWith(release, <<"R">>)
       THEN << Tail(release), <<"v">> \o Tail(release) >>
     ELSE IF StartsWith(release, <<"v">>)
       THEN << Tail(release), <<"R">> \o Tail(release) >>
     ELSE IF IsAlpha(release[1])
       THEN << Tail(release), <<"R">> \o Tail(release), <<"v">> \o Tail(release) >>
     ELSE << <<"v">> \o release, <<"R">> \o release >>)

\* finalize_tag: try_release
TryRelease(release) ==
    <<release>> \o
    (IF StartsWith(release, <<"R">>)
       THEN << <<"v">> \o Tail(release), Tail(release) >>
     ELSE IF StartsWith(release, <<"v">>)
       THEN << <<"R">> \o Tail(release), Tail(release) >>
     ELSE IF IsAlpha(release[1])
       THEN << <<"R">> \o Tail(release), <<"v">> \o Tail(release), Tail(release) >>
     ELSE << <<"R">> \o release, <<"v">> \o release >>)

\* get_target_dir taking the category one segment too early
get_target_dir_off_by_one(name, ioc_dir, release) ==
    LET split_name == Split(name, Hyphen)
    IN PathStr(PathDiv(PathDiv(PathDiv(ParsePath(ioc_dir), split_name[1]),
                               Join(DropFirst(split_name, 1), Hyphen)),
                       release))

\* get_target_dir; split_name[1] of a shorter list raises IndexError
TargetDirFails(name) == Len(Split(name, Hyphen)) < 2
get_target_dir(name, ioc_dir, release) ==
    LET split_name == Split(name, Hyphen)
    IN PathStr(PathDiv(PathDiv(PathDiv(ParsePath(ioc_dir), split_name[2]),
                               Join(DropFirst(split_name, 2), Hyphen)),
                       release))

\* MissingField with "or" for "and"
MissingField_or(a) == ~(a.name # <<>> \/ a.release # <<>>)

\* main: not (args.name and args.release)
MissingField(a) == ~(a.name # <<>> /\ a.release # <<>>)

\* AbortsOnExisting with the check left out
AbortsOnExisting_never(exists) == FALSE

\* main: if Path(deploy_dir).exists(): raise RuntimeError
AbortsOnExisting(exists) == exists

\* Confirmed accepting a "y" anywhere in the text
Confirmed_anywhere(user_text) ==
    \E i \in 1..Len(user_text) : Lower(user_text)[i] = "y"

\* main: user_text.strip().lower().startswith("y")
Confirmed(user_text) == StartsWith(Lower(Strip(user_text)), <<"y">>)

\* clone_repo_tag: parent_dir
ParentDir(dir) == PathParent(PathResolve(ParsePath(dir)))

\* make_in ignoring dry_run
make_in_always(dry_run, rc) == [runs |-> TRUE, rval |-> rc]

\* make_in reporting any failure of make as EXCEPTION
make_in_flattened(dry_run, rc) ==
    IF dry_run THEN [runs |-> FALSE, rval |-> SUCCESS]
    ELSE [runs |-> TRUE, rval |-> IF rc = 0 THEN SUCCESS ELSE EXCEPTION]

\* make_in: whether make is run, and the value returned
make_in(dry_run, rc) ==
    IF dry_run THEN [runs |-> FALSE, rval |-> SUCCESS]
    ELSE [runs |-> TRUE, rval |-> rc]

----------------------------------------------------------------------------
(* The run *)

Init ==
    /\ args \in CliArgs
    /\ pc = "_main"
    /\ upd_name = <<>>
    /\ upd_rel = <<>>
    /\ try_idx = 0
    /\ deploy_dir = <<>>
    /\ derived = 0
    /\ probes = <<>>
    /\ remote_tags = {}
    /\ path_existed = <<>>
    /\ prompts = <<>>
    /\ mkdirs = <<>>
    /\ clones = <<>>
    /\ makes = <<>>
    /\ raised = "none"
    /\ result = NoResult

Raise(exc) ==
    /\ raised' = exc
    /\ pc' = "except"

Return(rval) ==
    /\ result' = rval
    /\ pc' = "done"

\* _main: try: if args.version: ... return SUCCESS; return main(args)
_main ==
    /\ pc = "_main"
    /\ IF args.version
       THEN Return(SUCCESS)
       ELSE pc' = "main" /\ UNCHANGED result
    /\ UNCHANGED <<args, upd_name, upd_rel, try_idx, deploy_dir, derived, probes,
                   remote_tags, path_existed, prompts, mkdirs, clones, makes, raised>>

\* main: if not (args.name and args.release): raise ValueError
main_check_inputs ==
    /\ pc = "main"
    /\ IF MissingField(args)
       THEN Raise("ValueError")
       ELSE pc' = "finalize_name" /\ UNCHANGED raised
    /\ UNCHANGED <<args, upd_name, upd_rel, try_idx, deploy_dir, derived, probes,
                   remote_tags, path_existed, prompts, mkdirs, clones, makes, result>>

\* finalize_name: one probe clone of the candidate in a scratch directory
finalize_name ==
    /\ pc = "finalize_name"
    /\ LET name == CandidateName(args.name)
           cmd == _clone(name, args.github_org, <<>>, "tmpdir_name", <<>>)
       IN \E rc \in ProbeExitCodes :
            /\ probes' = Append(probes, [cmd |-> cmd, stage |-> "name", rel |-> <<>>, rc |-> rc])
            /\ IF RunChecked(rc).raises
               THEN Raise("ValueError") /\ UNCHANGED <<upd_name, try_idx>>
               ELSE /\ upd_name' = name
                    /\ try_idx' = 1
                    /\ pc' = "finalize_tag"
                    /\ UNCHANGED raised
    /\ UNCHANGED <<args, upd_rel, deploy_dir, derived, remote_tags, path_existed,
                   prompts, mkdirs, clones, makes, result>>

\* git clone -b <branch> exits 0 only if the remote has that tag or branch:
\* the refs a successful probe named with -b are refs of the remote
SeenRefs(cmd, rc) == IF rc = 0 THEN {cmd.branch[i] : i \in 1..Len(cmd.branch)} ELSE {}

\* finalize_tag: one pass of "for rel in try_release"; building try_release
\* from an empty release raises IndexError at release[0]
finalize_tag ==
    /\ pc = "finalize_tag"
    /\ IF args.release = <<>>
       THEN Raise("IndexError")
            /\ UNCHANGED <<probes, remote_tags, try_idx, upd_rel>>
       ELSE LET try_release == TryRelease(args.release)
                rel == try_release[try_idx]
                cmd == _clone(upd_name, args.github_org, rel, "tmpdir_tag", rel)
            IN \E rc \in ProbeExitCodes :
                 /\ probes' = Append(probes, [cmd |-> cmd, stage |-> "tag",
                                              rel |-> rel, rc |-> rc])
                 /\ remote_tags' = remote_tags \cup SeenRefs(cmd, rc)
                 /\ IF RunChecked(rc).raises
                    THEN IF try_idx < Len(try_release)
                         THEN /\ try_idx' = try_idx + 1
                              /\ UNCHANGED <<pc, raised, upd_rel>>
                         ELSE Raise("ValueError") /\ UNCHANGED <<try_idx, upd_rel>>
                    ELSE /\ upd_rel' = rel
                         /\ pc' = "get_target_dir"
                         /\ UNCHANGED <<try_idx, raised>>
    /\ UNCHANGED <<args, upd_name, deploy_dir, derived, path_existed, prompts,
                   mkdirs, clones, makes, result>>

\* main: deploy_dir = get_target_dir(...); if Path(deploy_dir).exists(): raise
main_target_dir ==
    /\ pc = "get_target_dir"
    /\ derived' = derived + 1
    /\ IF TargetDirFails(upd_name)
       THEN Raise("IndexError") /\ UNCHANGED <<deploy_dir, path_existed>>
       ELSE /\ deploy_dir' = get_target_dir(upd_name, args.ioc_dir, upd_rel)
            /\ \E exists \in BOOLEAN :
                 /\ path_existed' = Append(path_existed,
                                           [path |-> deploy_dir', exists |-> exists])
                 /\ IF AbortsOnExisting(exists)
                    THEN Raise("RuntimeError")
                    ELSE pc' = "confirm" /\ UNCHANGED raised
    /\ UNCHANGED <<args, upd_name, upd_rel, try_idx, probes, remote_tags, prompts,
                   mkdirs, clones, makes, result>>

\* main: if not args.auto_confirm: user_text = input(...); ... return NO_CONFIRM
main_confirm ==
    /\ pc = "confirm"
    /\ IF args.auto_confirm
       THEN pc' = "clone_repo_tag" /\ UNCHANGED <<prompts, result>>
       ELSE \E user_text \in UserTexts :
              /\ prompts' = Append(prompts, user_text)
              /\ IF ~Confirmed(user_text)
                 THEN Return(NO_CONFIRM)
                 ELSE pc' = "clone_repo_tag" /\ UNCHANGED result
    /\ UNCHANGED <<args, upd_name, upd_rel, try_idx, deploy_dir, derived, probes,
                   remote_tags, path_existed, mkdirs, clones, makes, raised>>

\* main: rval = clone_repo_tag(...); if rval != SUCCESS: return rval
clone_repo_tag ==
    /\ pc = "clone_repo_tag"
    /\ IF args.dry_run
       THEN /\ pc' = "make_in"
            /\ UNCHANGED <<mkdirs, clones, raised, result>>
       ELSE LET cmd == _clone(upd_name, args.github_org, upd_rel, "", deploy_dir)
            IN \E rc \in ExitCodes :
                 /\ mkdirs' = Append(mkdirs, ParentDir(deploy_dir))
                 /\ clones' = Append(clones, [cmd |-> cmd, rc |-> rc])
                 /\ IF RunChecked(rc).raises
                    THEN Raise("CalledProcessError") /\ UNCHANGED result
                    ELSE IF RunChecked(rc).returncode # SUCCESS
                    THEN Return(RunChecked(rc).returncode) /\ UNCHANGED raised
                    ELSE pc' = "make_in" /\ UNCHANGED <<raised, result>>
    /\ UNCHANGED <<args, upd_name, upd_rel, try_idx, deploy_dir, derived, probes,
                   remote_tags, path_existed, prompts, makes>>

\* main: rval = make_in(...); if rval != SUCCESS: return rval; return SUCCESS
main_make_in ==
    /\ pc = "make_in"
    /\ \E rc \in ExitCodes :
         LET m == make_in(args.dry_run, rc)
         IN /\ makes' = IF m.runs
                        THEN Append(makes, [cwd |-> deploy_dir, rc |-> rc])
                        ELSE makes
            /\ IF m.rval # SUCCESS THEN Return(m.rval) ELSE Return(SUCCESS)
    /\ UNCHANGED <<args, upd_name, upd_rel, try_idx, deploy_dir, derived, probes,
                   remote_tags, path_existed, prompts, mkdirs, clones, raised>>

\* _main: except Exception: return ReturnCode.EXCEPTION
_main_except ==
    /\ pc = "except"
    /\ Return(EXCEPTION)
    /\ UNCHANGED <<args, upd_name, upd_rel, try_idx, deploy_dir, derived, probes,
                   remote_tags, path_existed, prompts, mkdirs, clones, makes, raised>>

Next ==
    \/ _main
    \/ main_check_inputs
    \/ finalize_name
    \/ finalize_tag
    \/ main_target_dir
    \/ main_confirm
    \/ clone_repo_tag
    \/ main_make_in
    \/ _main_except

Spec == Init /\ [][Next]_vars

----------------------------------------------------------------------------
(* Vocabulary of the properties *)

NameProbes == SelectSeq(probes, LAMBDA p : p.stage = "name")
TagProbes == SelectSeq(probes, LAMBDA p : p.stage = "tag")
Last(seq) == seq[Len(seq)]
NoDeployment == mkdirs = <<>> /\ clones = <<>> /\ makes = <<>>
Aborted == pc \in {"except", "done"} /\ (pc = "done" => result = EXCEPTION)

\* the response starts with y or Y
FirstCharYes(text) == text # <<>> /\ text[1] \in {"y", "Y"}
\* the first character that is not a blank is y or Y
SaysYes(text) ==
    \E i \in 1..Len(text) :
        text[i] \in {"y", "Y"} /\ \A j \in 1..(i - 1) : text[j] = " "

HyphenCount(s) == Cardinality({i \in 1..Len(s) : s[i] = "-"})
\* at least three hyphen-delimited segments, the first one "ioc"
WellFormed(s) == StartsWith(s, <<"i", "o", "c", "-">>) /\ HyphenCount(s) >= 2
ExpectedCandidate(name) ==
    IF WellFormed(name) THEN name
    ELSE <<"i", "o", "c", "-", "c", "o", "m", "m", "o", "n", "-">> \o name

Digits == {"0", "1", "2", "3", "4", "5", "6", "7", "8", "9"}
RuleCovers(r) == r # <<>> /\ (r[1] \in Letters \/ r[1] \in Digits)
\* the variant list of the rule, for a release the rule covers
ExpectedVariants(r) ==
    LET rest == SubSeq(r, 2, Len(r))
    IN IF r[1] = "R" THEN <<r, <<"v">> \o rest, rest>>
       ELSE IF r[1] = "v" THEN <<r, <<"R">> \o rest, rest>>
       ELSE IF r[1] \in Letters THEN <<r, <<"R">> \o rest, <<"v">> \o rest, rest>>
       ELSE <<r, <<"R">> \o r, <<"v">> \o r>>
IsPrefix(s, t) == Len(s) <= Len(t) /\ \A i \in 1..Len(s) : s[i] = t[i]
TagStageLeft == pc \notin {"_main", "main", "finalize_name", "finalize_tag"}

\* n is a-b-r with a and b free of hyphens, and dir is base / b / r / tag
DerivedFrom(dir, n, base, tag) ==
    \E i \in 1..Len(n) : \E j \in (i + 1)..Len(n) :
        /\ n[i] = "-" /\ n[j] = "-"
        /\ \A k \in 1..(j - 1) : k # i => n[k] # "-"
        /\ LET cat == SubSeq(n, i + 1, j - 1)
               rest == SubSeq(n, j + 1, Len(n))
           IN /\ dir = PathStr(PathDiv(PathDiv(PathDiv(ParsePath(base), cat), rest), tag))
              /\ (cat # <<>> /\ rest # <<>> /\ tag # <<>>)
                    => dir = base \o <<"/">> \o cat \o <<"/">> \o rest \o <<"/">> \o tag
S_example_dir == <<"/", "x", "/", "i", "o", "c", "/", "c", "o", "m", "m", "o", "n", "/",
                   "g", "i", "g", "E", "C", "a", "m", "/", "R", "1", ".", "0", ".", "0">>

----------------------------------------------------------------------------
(* Properties *)

\* C1: when the real clone into the deployment path exits with a nonzero code c,
\* the run does not raise, returns c, and make is not invoked.
C1_CloneFailureReturned ==
    (pc = "done" /\ clones # <<>> /\ clones[1].rc # 0)
        => (raised = "none" /\ result = clones[1].rc /\ makes = <<>>)

\* C2: if the derived deployment path already exists, main fails (exit code 1)
\* before the confirmation prompt, and nothing is created, cloned or built.
C2_ExistingPathAborts ==
    \A i \in 1..Len(path_existed) :
        path_existed[i].exists
            => /\ Aborted
               /\ raised = "RuntimeError"
               /\ prompts = <<>>
               /\ NoDeployment
C2_Witness ==
    /\ pc = "done"
    /\ path_existed # <<>> /\ path_existed[1].exists
    /\ TagProbes # <<>>
    /\ result = EXCEPTION

\* C3 as stated: under dry-run with name and tag resolved and the path absent, the
\* probes ran, nothing is created, cloned or built, and the run returns SUCCESS.
C3_DryRunAlwaysSucceeds ==
    (pc = "done" /\ args.dry_run /\ path_existed # <<>> /\ ~path_existed[1].exists)
        => /\ NameProbes # <<>> /\ TagProbes # <<>>
           /\ NoDeployment
           /\ result = SUCCESS
\* C3 amended: ... and the run returns SUCCESS when auto-confirm is set or the
\* response is affirmative, and NO_CONFIRM otherwise.
C3_DryRunNoSideEffects ==
    (pc = "done" /\ args.dry_run /\ path_existed # <<>> /\ ~path_existed[1].exists)
        => /\ NameProbes # <<>> /\ TagProbes # <<>>
           /\ Last(TagProbes).rc = 0
           /\ NoDeployment
           /\ raised = "none"
           /\ result = IF args.auto_confirm \/ (prompts # <<>> /\ SaysYes(prompts[1]))
                       THEN SUCCESS ELSE NO_CONFIRM
C3_Witness ==
    /\ pc = "done" /\ args.dry_run /\ ~args.auto_confirm
    /\ prompts = << <<"y">> >>
    /\ Len(probes) >= 2
    /\ result = SUCCESS

\* C4 as stated: every response whose first character is not y or Y returns
\* NO_CONFIRM without raising and without side effects; auto-confirm never prompts.
C4_FirstCharDecides ==
    /\ args.auto_confirm => prompts = <<>>
    /\ \A i \in 1..Len(prompts) :
          ~FirstCharYes(prompts[i])
              => pc = "done" /\ result = NO_CONFIRM /\ raised = "none" /\ NoDeployment
\* C4 amended: every response whose first character after the surrounding blanks
\* are stripped is not y or Y returns NO_CONFIRM without raising and without side
\* effects; auto-confirm never prompts.
C4_StrippedFirstCharDecides ==
    /\ args.auto_confirm => prompts = <<>>
    /\ Len(prompts) <= 1
    /\ \A i \in 1..Len(prompts) :
          ~SaysYes(prompts[i])
              => pc = "done" /\ result = NO_CONFIRM /\ raised = "none" /\ NoDeployment
C4_Witness ==
    /\ pc = "done"
    /\ prompts = << <<"n">> >>
    /\ result = NO_CONFIRM

\* C5: make runs only after the real clone returned 0, in the deployment path; a
\* nonzero exit code c of make is returned as the status without raising; SUCCESS
\* is returned by main only when clone and make both returned 0.
C5_MakeFailureReturned ==
    /\ makes # <<>>
          => /\ Len(makes) = 1 /\ Len(clones) = 1
             /\ clones[1].rc = 0
             /\ makes[1].cwd = deploy_dir
             /\ pc = "done"
             /\ raised = "none"
             /\ result = makes[1].rc
    /\ (pc = "done" /\ ~args.version /\ raised = "none" /\ result = SUCCESS)
          => /\ \A i \in 1..Len(clones) : clones[i].rc = 0
             /\ \A i \in 1..Len(makes) : makes[i].rc = 0
             /\ ~args.dry_run => (clones # <<>> /\ makes # <<>>)
C5_Witness ==
    /\ pc = "done"
    /\ clones # <<>> /\ clones[1].rc = 0
    /\ makes # <<>> /\ makes[1].rc = 3
    /\ result = 3

\* C6: finalize_tag probes the variants of the rule in order, without repeats,
\* stops at the first probe that succeeds and returns that variant, and raises
\* when every probe failed.
C6_VariantOrder ==
    LET tried == [i \in 1..Len(TagProbes) |-> TagProbes[i].rel]
    IN /\ \A i, j \in 1..Len(tried) : i # j => tried[i] # tried[j]
       /\ \A i \in 1..(Len(tried) - 1) : TagProbes[i].rc # 0
       /\ tried # <<>> => tried[1] = args.release
       /\ (tried # <<>> /\ RuleCovers(args.release))
             => /\ IsPrefix(tried, ExpectedVariants(args.release))
                /\ (Last(TagProbes).rc # 0 /\ pc = "finalize_tag")
                      => Len(tried) < Len(ExpectedVariants(args.release))
                /\ (Last(TagProbes).rc # 0 /\ pc # "finalize_tag")
                      => Len(tried) = Len(ExpectedVariants(args.release))
       /\ (tried # <<>> /\ Last(TagProbes).rc = 0)
             => TagStageLeft /\ upd_rel = Last(tried) /\ raised # "ValueError"
       /\ (tried # <<>> /\ Last(TagProbes).rc # 0 /\ pc # "finalize_tag")
             => raised = "ValueError" /\ Aborted
       /\ (tried # <<>> /\ args.release = S_R100)
             => IsPrefix(tried, <<S_R100, <<"v", "1", ".", "0", ".", "0">>, S_100>>)
       /\ (tried # <<>> /\ args.release = S_100)
             => IsPrefix(tried, <<S_100, S_R100, <<"v", "1", ".", "0", ".", "0">>>>)
C6_Witness ==
    /\ args.release = S_R100
    /\ Len(TagProbes) = 3
    /\ TagProbes[2].rel = <<"v", "1", ".", "0", ".", "0">>
    /\ TagProbes[2].rc # 0
    /\ TagProbes[3].rc = 0
    /\ upd_rel = S_100

\* C7: whatever finalize_tag returns names a tag or branch of the repository: the
\* probe that succeeded passed it to git as the explicit -b argument.
C7_ReturnedTagExists ==
    (TagProbes # <<>> /\ Last(TagProbes).rc = 0)
        => /\ Last(TagProbes).cmd.branch = <<upd_rel>>
           /\ upd_rel \in remote_tags

C9_MissingCase ==
    /\ ~args.version
    /\ args.name = <<>> \/ args.release = <<>>
    /\ pc \notin {"_main", "main"}
C9_NameNotFound == NameProbes # <<>> /\ NameProbes[1].rc # 0
C9_TagNotFound ==
    /\ TagProbes # <<>>
    /\ Last(TagProbes).rc # 0
    /\ pc # "finalize_tag"
C9_ResolutionFailureAborts ==
    /\ (args.name = <<>> \/ args.release = <<>>) => probes = <<>>
    /\ C9_NameNotFound => TagProbes = <<>>
    /\ (C9_MissingCase \/ C9_NameNotFound \/ C9_TagNotFound)
          => /\ Aborted
             /\ raised = "ValueError"
             /\ derived = 0 /\ deploy_dir = <<>> /\ path_existed = <<>>
             /\ prompts = <<>>
             /\ NoDeployment
C9_Witness ==
    /\ pc = "done"
    /\ C9_TagNotFound
    /\ Len(TagProbes) = 4
    /\ result = EXCEPTION

\* C10: get_target_dir never fails on a name returned by finalize_name and gives
\* base_dir / segments[1] / "-".join(segments[2:]) / tag; that one path is the
\* path checked for existence, cloned into and built in.
C10_TargetDir ==
    /\ raised # "IndexError"
    /\ derived <= 1
    /\ derived = 0 => deploy_dir = <<>> /\ path_existed = <<>> /\ NoDeployment
    /\ derived = 1
          => /\ DerivedFrom(deploy_dir, upd_name, args.ioc_dir, upd_rel)
             /\ Len(path_existed) = 1 /\ path_existed[1].path = deploy_dir
             /\ \A i \in 1..Len(clones) : clones[i].cmd.target = <<deploy_dir>>
             /\ \A i \in 1..Len(makes) : makes[i].cwd = deploy_dir
             /\ (upd_name = S_ioc_common_gigECam /\ args.ioc_dir = S_x_ioc
                   /\ upd_rel = S_R100) => deploy_dir = S_example_dir
C10_Witness ==
    /\ pc = "done"
    /\ makes # <<>>
    /\ clones # <<>>
    /\ deploy_dir = S_example_dir

====
